---- MODULE Spec2Model ----
(***************************************************************************)
(* The router of next-core (router.rs): route_internal evaluates the       *)
(* router program in the node.js sandbox and decodes what comes back,      *)
(* either one JSON message or a stream of JSON messages, into a            *)
(* RouterResult.  The model follows one call of route_internal from its    *)
(* system-path check to the returned value, and then the consumer of the   *)
(* MiddlewareResponse body pulling (or dropping) the lazily mapped stream. *)
(***************************************************************************)
EXTENDS Integers, Sequences, FiniteSets, TLC

\* Longest sandbox stream the model enumerates (headers message included).
MaxStream == 3

\* status_code is a u16, a body chunk is a Vec<u8>.
U16Limit == 65536
U8Limit == 256

(***************************************************************************)
(* The wire.  A payload is a byte string; what matters of it is whether it *)
(* is UTF-8, whether it is JSON, and the JSON object it spells: its "type" *)
(* tag (kebab-case) and its "data" (camelCase field names).                *)
(***************************************************************************)
HeaderLists ==
    { <<>>,
      << <<"a", "b">> >>,
      << <<"a", "b">>, <<"c", "d">>, <<"a", "b">> >> }

Urls == {"/x", "/y"}

B1 == <<1>>
B2 == <<2, 255>>

JsonObj(t, d) == [enc |-> "utf8", json |-> "object", type |-> t, data |-> d]

WireRewriteMsgs ==
    { JsonObj("rewrite", [url |-> u, headers |-> h]) : u \in Urls, h \in HeaderLists }

WireHeadersMsgs ==
    { JsonObj("middleware-headers", [statusCode |-> s, headers |-> h]) :
        s \in {200, 404}, h \in HeaderLists }

WireBodyMsgs ==
    { JsonObj("middleware-body", [array |-> b]) : b \in {<<>>, B1, B2} }

WireNone == [enc |-> "utf8", json |-> "object", type |-> "none"]

WireError ==
    JsonObj("error", [name |-> "Error", message |-> "boom", stack |-> <<>>])

\* Payloads serde rejects: not UTF-8, not JSON, no tag, a tag that is no
\* kebab-case variant name, data missing or of the wrong type.
WireMalformed ==
    { [enc |-> "invalid"],
      [enc |-> "utf8", json |-> "invalid"],
      [enc |-> "utf8", json |-> "object"],
      [enc |-> "utf8", json |-> "object", type |-> "redirect"],
      JsonObj("MiddlewareHeaders", [statusCode |-> 200, headers |-> <<>>]),
      [enc |-> "utf8", json |-> "object", type |-> "rewrite"],
      JsonObj("rewrite", [url |-> "/x"]),
      JsonObj("middleware-headers", [status_code |-> 200, headers |-> <<>>]),
      JsonObj("middleware-headers", [statusCode |-> U16Limit, headers |-> <<>>]),
      JsonObj("middleware-body", [array |-> <<U8Limit>>]) }

Payloads ==
    WireRewriteMsgs \cup WireHeadersMsgs \cup WireBodyMsgs
        \cup {WireNone, WireError} \cup WireMalformed

\* An element of the sandbox stream: Result<Bytes, StructuredError>.
TransportError == [ok |-> FALSE, message |-> "read failed"]
Delivered(p) == [ok |-> TRUE, val |-> p]

FirstElems == { Delivered(p) : p \in Payloads } \cup {TransportError}

\* The elements enumerated after the first one: one of each class.
RestPayloads ==
    { JsonObj("middleware-body", [array |-> B1]),
      JsonObj("middleware-body", [array |-> B2]),
      JsonObj("middleware-headers", [statusCode |-> 200, headers |-> <<>>]),
      JsonObj("rewrite", [url |-> "/x", headers |-> <<>>]),
      WireNone,
      WireError,
      [enc |-> "utf8", json |-> "invalid"],
      [enc |-> "invalid"] }

RestElems == { Delivered(p) : p \in RestPayloads } \cup {TransportError}

\* The element sequences after the first element, up to length n.  A failed
\* read is the last thing a stream delivers: the failure ends the stream.
RECURSIVE Tails(_)
Tails(n) ==
    IF n = 0 THEN { <<>> }
    ELSE LET shorter == Tails(n - 1)
             full == { t \in shorter : Len(t) = n - 1 /\ \A i \in 1 .. Len(t) : t[i].ok }
         IN  shorter \cup { Append(s, e) : s \in full, e \in RestElems }

Streams ==
    { <<>>, <<TransportError>> }
        \cup { <<f>> \o t : f \in FirstElems \ {TransportError}, t \in Tails(MaxStream - 1) }

\* What evaluate() can resolve to: its own failure, or a JavaScriptEvaluation.
Evaluations ==
    { [kind |-> "Failed"], [kind |-> "Empty"], [kind |-> "Single", ok |-> FALSE] }
        \cup { [kind |-> "Single", ok |-> TRUE, val |-> p] : p \in Payloads }
        \cup { [kind |-> "Stream", elems |-> s, closed |-> c] :
                 s \in Streams, c \in BOOLEAN }

(***************************************************************************)
(* Decoding: Bytes::to_str, then parse_json_with_source_context into       *)
(* RouterIncomingMessage (internally tagged, kebab-case tags).             *)
(***************************************************************************)
Ok(v) == [ok |-> TRUE, val |-> v]
Err(e) == [ok |-> FALSE, err |-> e]

to_str(p) == IF p.enc = "utf8" THEN Ok(p) ELSE Err("invalid utf-8 sequence")

IsU16(n) == n \in 0 .. (U16Limit - 1)
IsU8Vec(s) == \A i \in 1 .. Len(s) : s[i] \in 0 .. (U8Limit - 1)

HasData(p, fields) == "data" \in DOMAIN p /\ fields \subseteq DOMAIN p.data

parse_json_with_source_context(p) ==
    IF p.json # "object" THEN Err("expected value")
    ELSE IF "type" \notin DOMAIN p THEN Err("missing field type")
    ELSE CASE p.type = "rewrite" ->
                IF HasData(p, {"url", "headers"})
                THEN Ok([variant |-> "Rewrite",
                         data |-> [url |-> p.data.url, headers |-> p.data.headers]])
                ELSE Err("invalid rewrite data")
           [] p.type = "middleware-headers" ->
                IF HasData(p, {"statusCode", "headers"}) /\ IsU16(p.data.statusCode)
                THEN Ok([variant |-> "MiddlewareHeaders",
                         data |-> [status_code |-> p.data.statusCode,
                                   headers |-> p.data.headers]])
                ELSE Err("invalid middleware-headers data")
           [] p.type = "middleware-body" ->
                IF HasData(p, {"array"}) /\ IsU8Vec(p.data.array)
                THEN Ok([variant |-> "MiddlewareBody", data |-> p.data.array])
                ELSE Err("invalid middleware-body data")
           [] p.type = "none" -> Ok([variant |-> "None"])
           [] p.type = "error" ->
                IF HasData(p, {"name", "message", "stack"})
                THEN Ok([variant |-> "Error", error |-> p.data])
                ELSE Err("invalid error data")
           [] OTHER -> Err("unknown variant")

\* val.to_str()? then parse_json_with_source_context(..)?
Decode(p) ==
    LET s == to_str(p)
    IN  IF s.ok THEN parse_json_with_source_context(s.val) ELSE s

(***************************************************************************)
(* The values route_internal resolves to.                                  *)
(***************************************************************************)
Pending == [kind |-> "Pending"]
CallFailed(e) == [kind |-> "Err", error |-> e]
RouterError == [kind |-> "Error"]
RouterNone == [kind |-> "None"]
RouterRewrite(data) == [kind |-> "Rewrite", url |-> data.url, headers |-> data.headers]
RouterMiddleware(data) ==
    [kind |-> "Middleware", status_code |-> data.status_code, headers |-> data.headers]

(***************************************************************************)
(* The project: the files find_context_file can see, next_config's page    *)
(* extensions, and the matcher the middleware source declares.             *)
(***************************************************************************)
\* Changes of the project (edits of a next.config file, firings of
\* routes_changed) the model follows.
MaxEdits == 2

FileNames == {"middleware.ts", "src/middleware.mdx", "next.config.js", "next.config.mjs"}

PageExtensionLists == { <<"tsx", "ts">>, <<"mdx", "ts">> }

Matchers == { <<>>, <<"/api/:path*">> }

Projects ==
    [files : SUBSET FileNames, page_extensions : PageExtensionLists,
     declared_matcher : Matchers]

DefaultProject ==
    [files |-> {"next.config.js"}, page_extensions |-> <<"tsx", "ts">>,
     declared_matcher |-> <<>>]

next_configs == <<"next.config.mjs", "next.config.js">>

\* ["middleware.", "src/middleware."] flat-mapped over the extensions.
middleware_files(page_extensions) ==
    [i \in 1 .. Len(page_extensions) |-> "middleware." \o page_extensions[i]]
        \o [i \in 1 .. Len(page_extensions) |-> "src/middleware." \o page_extensions[i]]

\* find_context_file: the first of the names that exists in the project.
find_context_file(files, names) ==
    LET hits == { i \in 1 .. Len(names) : names[i] \in files }
    IN  IF hits = {} THEN [found |-> FALSE]
        ELSE [found |-> TRUE,
              path |-> names[CHOOSE i \in hits : \A j \in hits : i <= j]]

SourceAsset(path) == [asset |-> "source", path |-> path]
VirtualAsset(path, content) == [asset |-> "virtual", path |-> path, content |-> content]

as_es_module_asset(asset) ==
    [module |-> "ecmascript", ty |-> "Typescript", transforms |-> <<"TypeScript">>,
     source |-> asset]

get_config(p, configs) ==
    LET r == find_context_file(p.files, configs)
    IN  IF r.found
        THEN [some |-> TRUE, asset |-> as_es_module_asset(SourceAsset(r.path))]
        ELSE [some |-> FALSE]

\* The text "export default <json>;" as the value the module exports.
ExportDefault(json) == [export_default |-> json]
JsonArray(s) == [array |-> s]

\* util.rs: the matcher a middleware source declares, and the default config.
parse_config_from_source(p, asset) == [matcher |-> p.declared_matcher]
NextSourceConfigDefault == [matcher |-> <<>>]

\* A builder that leaves the manifest out when there is no middleware.
config_assets_no_fallback(p) ==
    LET middleware_config == get_config(p, middleware_files(p.page_extensions))
    IN  IF middleware_config.some
        THEN [MIDDLEWARE_CHUNK_GROUP |->
                  [transition |-> "next-edge", source |-> middleware_config.asset],
              MIDDLEWARE_CONFIG |->
                  as_es_module_asset(VirtualAsset("middleware_config.js",
                      ExportDefault([matcher |->
                          JsonArray(parse_config_from_source(p, middleware_config.asset).matcher)])))]
        ELSE [MIDDLEWARE_CONFIG |->
                  as_es_module_asset(VirtualAsset("middleware_config.js",
                      ExportDefault([matcher |-> JsonArray(p.declared_matcher)])))]

config_assets(p) ==
    LET middleware_config == get_config(p, middleware_files(p.page_extensions))
        manifest ==
            IF middleware_config.some
            THEN [transition |-> "next-edge", source |-> middleware_config.asset]
            ELSE as_es_module_asset(
                     VirtualAsset("middleware.js", ExportDefault(JsonArray(<<>>))))
        config ==
            IF middleware_config.some
            THEN parse_config_from_source(p, middleware_config.asset)
            ELSE NextSourceConfigDefault
        config_asset ==
            as_es_module_asset(
                VirtualAsset("middleware_config.js",
                             ExportDefault([matcher |-> JsonArray(config.matcher)])))
    IN  [MIDDLEWARE_CHUNK_GROUP |-> manifest, MIDDLEWARE_CONFIG |-> config_asset]

VARIABLES
    sysPath,      \* to_sys_path(project_path): "Some" or "None"
    sandbox,      \* what the sandbox answers to an evaluation of this request
    pc,           \* position of route_internal
    evalCount,    \* invocations of evaluate()
    evaluation,   \* the JavaScriptEvaluation route_internal holds
    result,       \* what route_internal resolved to
    readIdx,      \* elements read from the sandbox stream
    body,         \* elements the MiddlewareResponse body has yielded
    bodyState,    \* "none", "open", "ended" (yielded None) or "dropped"
    pulls,        \* polls of the body by the consumer
    project,      \* the project route_internal runs against
    fileVersion,  \* content version of each next.config file
    routesVersion,\* firings of the caller's routes_changed completion
    configs,      \* the InnerAssets config_assets built
    evaluatedAt,  \* the completion evaluate() was given, as it was at the call
    atEval,       \* routesVersion and fileVersion when evaluate() was called
    runs,         \* executions of route_internal started so far
    decoded,      \* every single message decoded so far, with its run and result
    peer          \* a second request evaluated concurrently, or Absent

callVars == <<pc, evalCount, evaluation, result, readIdx, body, bodyState, pulls>>
envVars == <<project, fileVersion, routesVersion>>
restVars == <<envVars, configs, evaluatedAt, atEval, runs, decoded, peer>>

vars == <<sysPath, sandbox, callVars, restVars>>

NotBuilt == [built |-> FALSE]
NotEvaluated == [completion |-> "none"]
Absent == [pc |-> "absent"]

(***************************************************************************)
(* The invalidation signal handed to evaluate().                           *)
(***************************************************************************)
CompletionImmutable == [completion |-> "immutable"]

\* any_content_changed(c): changes whenever the content of c does.
any_content_changed(asset) ==
    [completion |-> "content", path |-> asset.source.path,
     version |-> fileVersion[asset.source.path]]

next_config_changed ==
    LET next_config == get_config(project, next_configs)
    IN  IF next_config.some
        THEN any_content_changed(next_config.asset)
        ELSE CompletionImmutable

routes_changed == [completion |-> "routes", version |-> routesVersion]

\* CompletionsVc::all: changes whenever one of its members does.
CompletionsAll(list) == [completion |-> "all", of |-> list]

\* A signal that forgets the caller's routes_changed.
additional_invalidation_config_only == CompletionsAll(<<next_config_changed>>)

additional_invalidation == CompletionsAll(<<next_config_changed, routes_changed>>)

InitCall ==
    /\ pc = "start"
    /\ evalCount = 0
    /\ evaluation = [kind |-> "NotRun"]
    /\ result = Pending
    /\ readIdx = 0
    /\ body = <<>>
    /\ bodyState = "none"
    /\ pulls = 0

InitRest ==
    /\ fileVersion = [f \in {"next.config.js", "next.config.mjs"} |-> 0]
    /\ routesVersion = 0
    /\ configs = NotBuilt
    /\ evaluatedAt = NotEvaluated
    /\ atEval = [routes |-> 0, files |-> fileVersion]
    /\ runs = 1
    /\ decoded = {}

Init ==
    /\ sysPath \in {"Some", "None"}
    /\ sandbox \in Evaluations
    /\ InitCall
    /\ project = DefaultProject
    /\ InitRest
    /\ peer = Absent

(***************************************************************************)
(* route_internal, one action per suspension point.                        *)
(***************************************************************************)

\* let Some(dir) = to_sys_path(project_path).await? else { bail!(..) }
CheckSysPathSkipped ==
    /\ pc = "start"
    /\ pc' = "evaluate"
    /\ UNCHANGED <<sysPath, sandbox, evalCount, evaluation, result, readIdx, body,
                   bodyState, pulls>>
    /\ configs' = config_assets(project)
    /\ UNCHANGED <<envVars, evaluatedAt, atEval, runs, decoded, peer>>

CheckSysPath ==
    /\ pc = "start"
    /\ IF sysPath = "None"
       THEN /\ result' = CallFailed("Next.js requires a disk path to check for valid routes")
            /\ pc' = "done"
       ELSE /\ result' = result
            /\ pc' = "evaluate"
    /\ UNCHANGED <<sysPath, sandbox, evalCount, evaluation, readIdx, body, bodyState,
                   pulls>>
    /\ configs' = config_assets(project)
    /\ UNCHANGED <<envVars, evaluatedAt, atEval, runs, decoded, peer>>

\* let result = evaluate(..).await?;
Evaluate ==
    /\ pc = "evaluate"
    /\ evalCount' = evalCount + 1
    /\ IF sandbox.kind = "Failed"
       THEN /\ result' = CallFailed("evaluate failed")
            /\ evaluation' = evaluation
            /\ pc' = "done"
       ELSE /\ result' = result
            /\ evaluation' = sandbox
            /\ pc' = "match"
    /\ UNCHANGED <<sysPath, sandbox, readIdx, body, bodyState, pulls>>
    /\ evaluatedAt' = additional_invalidation
    /\ atEval' = [routes |-> routesVersion, files |-> fileVersion]
    /\ UNCHANGED <<envVars, configs, runs, decoded, peer>>

\* The match on the decoded single message.
SingleOutcomeNoHeaders(msg) ==
    CASE msg.variant = "Rewrite" -> RouterRewrite([url |-> msg.data.url, headers |-> <<>>])
      [] msg.variant = "None" -> RouterNone
      [] OTHER -> RouterError

SingleOutcomeAcceptsMiddleware(msg) ==
    CASE msg.variant = "Rewrite" -> RouterRewrite(msg.data)
      [] msg.variant = "None" -> RouterNone
      [] msg.variant = "MiddlewareHeaders" -> RouterMiddleware(msg.data)
      [] OTHER -> RouterError

SingleOutcome(msg) ==
    CASE msg.variant = "Rewrite" -> RouterRewrite(msg.data)
      [] msg.variant = "None" -> RouterNone
      [] OTHER -> RouterError

\* JavaScriptEvaluation::Single(Ok(val)): a decode failure leaves through `?`.
SingleResult(val) ==
    LET d == Decode(val)
    IN  IF d.ok THEN SingleOutcome(d.val) ELSE CallFailed(d.err)

\* A handler that decodes the buffer of the run before, when there is one.
MatchSingleStale ==
    /\ pc = "match"
    /\ evaluation.kind = "Single"
    /\ evaluation.ok
    /\ result' = IF decoded = {} THEN SingleResult(evaluation.val)
                 ELSE SingleResult((CHOOSE d \in decoded :
                                       \A e \in decoded : e.run <= d.run).val)
    /\ pc' = "done"
    /\ UNCHANGED <<sysPath, sandbox, evalCount, evaluation, readIdx, body, bodyState,
                   pulls>>
    /\ decoded' = decoded \cup {[run |-> runs, val |-> evaluation.val, result |-> result']}
    /\ UNCHANGED <<envVars, configs, evaluatedAt, atEval, runs, peer>>

MatchSingle ==
    /\ pc = "match"
    /\ evaluation.kind = "Single"
    /\ evaluation.ok
    /\ result' = SingleResult(evaluation.val)
    /\ pc' = "done"
    /\ UNCHANGED <<sysPath, sandbox, evalCount, evaluation, readIdx, body, bodyState,
                   pulls>>
    /\ decoded' = decoded \cup {[run |-> runs, val |-> evaluation.val, result |-> result']}
    /\ UNCHANGED <<envVars, configs, evaluatedAt, atEval, runs, peer>>

\* A handler that runs the evaluation again when it reported an error.
MatchOtherRetries ==
    /\ pc = "match"
    /\ \/ evaluation.kind = "Empty"
       \/ evaluation.kind = "Single" /\ ~evaluation.ok
    /\ IF evalCount < 2
       THEN result' = result /\ pc' = "evaluate"
       ELSE result' = RouterError /\ pc' = "done"
    /\ UNCHANGED <<sysPath, sandbox, evalCount, evaluation, readIdx, body, bodyState,
                   pulls>>
    /\ UNCHANGED restVars

\* A handler that fails the call when the evaluation produced no value.
MatchOtherFailsCall ==
    /\ pc = "match"
    /\ \/ evaluation.kind = "Empty"
       \/ evaluation.kind = "Single" /\ ~evaluation.ok
    /\ result' = CallFailed("evaluation produced no value")
    /\ pc' = "done"
    /\ UNCHANGED <<sysPath, sandbox, evalCount, evaluation, readIdx, body, bodyState,
                   pulls>>
    /\ UNCHANGED restVars

\* _ => Ok(RouterResult::Error.cell()): Empty and Single(Err(..)).
MatchOther ==
    /\ pc = "match"
    /\ \/ evaluation.kind = "Empty"
       \/ evaluation.kind = "Single" /\ ~evaluation.ok
    /\ result' = RouterError
    /\ pc' = "done"
    /\ UNCHANGED <<sysPath, sandbox, evalCount, evaluation, readIdx, body, bodyState,
                   pulls>>
    /\ UNCHANGED restVars

\* A poll of the sandbox stream's reader can complete: an element is there,
\* or the stream has ended.  Otherwise it stays pending.
CanRead == readIdx < Len(evaluation.elems) \/ evaluation.closed

\* match read.next().await { Some(Ok(first)) => .., _ => Error }
FirstResult(next) ==
    IF next = <<>> THEN RouterError
    ELSE IF ~next[1].ok THEN RouterError
    ELSE LET d == Decode(next[1].val)
         IN  IF ~d.ok THEN CallFailed(d.err)
             ELSE IF d.val.variant = "MiddlewareHeaders"
                  THEN RouterMiddleware(d.val.data)
                  ELSE RouterError

\* A decoder that looks for the headers message further down the stream.
ReadFirstSkipping ==
    /\ pc = "match"
    /\ evaluation.kind = "Stream"
    /\ CanRead
    /\ LET elems == evaluation.elems
           hdrs == { i \in 1 .. Len(elems) :
                       FirstResult(<<elems[i]>>).kind = "Middleware" }
           at == IF hdrs = {} THEN Len(elems)
                 ELSE CHOOSE i \in hdrs : \A j \in hdrs : i <= j
       IN  /\ result' = IF hdrs = {} THEN RouterError ELSE FirstResult(<<elems[at]>>)
           /\ readIdx' = at
    /\ bodyState' = IF result'.kind = "Middleware" THEN "open" ELSE "none"
    /\ pc' = "done"
    /\ UNCHANGED <<sysPath, sandbox, evalCount, evaluation, body, pulls>>
    /\ UNCHANGED restVars

\* A decoder that drains the stream into a buffer when it builds the body.
ReadFirstEager ==
    /\ pc = "match"
    /\ evaluation.kind = "Stream"
    /\ CanRead
    /\ LET next == IF readIdx < Len(evaluation.elems)
                   THEN <<evaluation.elems[readIdx + 1]>>
                   ELSE <<>>
       IN  /\ result' = FirstResult(next)
           /\ readIdx' = IF result'.kind = "Middleware"
                         THEN Len(evaluation.elems)
                         ELSE readIdx + Len(next)
    /\ bodyState' = IF result'.kind = "Middleware" THEN "open" ELSE "none"
    /\ pc' = "done"
    /\ UNCHANGED <<sysPath, sandbox, evalCount, evaluation, body, pulls>>
    /\ UNCHANGED restVars

ReadFirst ==
    /\ pc = "match"
    /\ evaluation.kind = "Stream"
    /\ CanRead
    /\ LET next == IF readIdx < Len(evaluation.elems)
                   THEN <<evaluation.elems[readIdx + 1]>>
                   ELSE <<>>
       IN  /\ result' = FirstResult(next)
           /\ readIdx' = readIdx + Len(next)
    /\ bodyState' = IF result'.kind = "Middleware" THEN "open" ELSE "none"
    /\ pc' = "done"
    /\ UNCHANGED <<sysPath, sandbox, evalCount, evaluation, body, pulls>>
    /\ UNCHANGED restVars

(***************************************************************************)
(* The body: read.map(|data| ..), wrapped by Stream::from_stream.  Nothing *)
(* is read when the body is built; each poll of the body by the consumer   *)
(* polls the reader once and maps the element it yields.                   *)
(***************************************************************************)
\* A mapping that passes a message of another tag on as an empty chunk.
BodyMapLenient(data) ==
    IF ~data.ok THEN Err(data.message)
    ELSE LET s == to_str(data.val)
         IN  IF ~s.ok THEN Err("error decoding string")
             ELSE LET d == parse_json_with_source_context(s.val)
                  IN  IF ~d.ok THEN Err(d.err)
                      ELSE IF d.val.variant = "MiddlewareBody"
                           THEN Ok(d.val.data)
                           ELSE Ok(<<>>)

BodyMap(data) ==
    IF ~data.ok THEN Err(data.message)
    ELSE LET s == to_str(data.val)
         IN  IF ~s.ok THEN Err("error decoding string")
             ELSE LET d == parse_json_with_source_context(s.val)
                  IN  IF ~d.ok THEN Err(d.err)
                      ELSE IF d.val.variant = "MiddlewareBody"
                           THEN Ok(d.val.data)
                           ELSE Err("unexpected message type: " \o d.val.variant)

BodyIsOpen ==
    /\ pc = "done"
    /\ result.kind = "Middleware"
    /\ bodyState = "open"

\* A body that hands the newest chunk out first.
PullBodyLifo ==
    /\ BodyIsOpen
    /\ CanRead
    /\ pulls' = pulls + 1
    /\ IF readIdx < Len(evaluation.elems)
       THEN /\ body' = <<BodyMap(evaluation.elems[readIdx + 1])>> \o body
            /\ readIdx' = readIdx + 1
            /\ bodyState' = bodyState
       ELSE /\ bodyState' = "ended"
            /\ UNCHANGED <<body, readIdx>>
    /\ UNCHANGED <<sysPath, sandbox, pc, evalCount, evaluation, result>>
    /\ UNCHANGED restVars

\* A body whose failure is turned into a failure of the whole response.
PullBodyFailsResponse ==
    /\ BodyIsOpen
    /\ CanRead
    /\ pulls' = pulls + 1
    /\ IF readIdx < Len(evaluation.elems)
       THEN LET e == BodyMap(evaluation.elems[readIdx + 1])
            IN  /\ body' = Append(body, e)
                /\ readIdx' = readIdx + 1
                /\ bodyState' = bodyState
                /\ result' = IF e.ok THEN result ELSE RouterError
       ELSE /\ bodyState' = "ended"
            /\ UNCHANGED <<body, readIdx, result>>
    /\ UNCHANGED <<sysPath, sandbox, pc, evalCount, evaluation>>
    /\ UNCHANGED restVars

\* One poll of MiddlewareResponse.body that completes.
PullBody ==
    /\ BodyIsOpen
    /\ CanRead
    /\ pulls' = pulls + 1
    /\ IF readIdx < Len(evaluation.elems)
       THEN /\ body' = Append(body, BodyMap(evaluation.elems[readIdx + 1]))
            /\ readIdx' = readIdx + 1
            /\ bodyState' = bodyState
       ELSE /\ bodyState' = "ended"
            /\ UNCHANGED <<body, readIdx>>
    /\ UNCHANGED <<sysPath, sandbox, pc, evalCount, evaluation, result>>
    /\ UNCHANGED restVars

\* The consumer stops pulling and drops the body.
Abandon ==
    /\ BodyIsOpen
    /\ bodyState' = "dropped"
    /\ UNCHANGED <<sysPath, sandbox, pc, evalCount, evaluation, result, readIdx, body,
                   pulls>>
    /\ UNCHANGED restVars

Next ==
    \/ CheckSysPath
    \/ Evaluate
    \/ MatchSingle
    \/ MatchOther
    \/ ReadFirst
    \/ PullBody
    \/ Abandon

Spec == Init /\ [][Next]_vars

(***************************************************************************)
(* The project changing under the router.  route_internal is a memoized    *)
(* turbo-tasks function: it is executed again when the completion it gave  *)
(* to evaluate() has changed since the call.                               *)
(***************************************************************************)
ProjectSandbox ==
    { [kind |-> "Empty"],
      [kind |-> "Single", ok |-> TRUE, val |-> WireNone],
      [kind |-> "Single", ok |-> TRUE,
       val |-> JsonObj("rewrite", [url |-> "/x", headers |-> <<>>])],
      [kind |-> "Stream", closed |-> TRUE,
       elems |-> << Delivered(JsonObj("middleware-headers",
                                      [statusCode |-> 200, headers |-> <<>>])),
                    Delivered(JsonObj("middleware-body", [array |-> B1])) >>] }

InitProject ==
    /\ sysPath \in {"Some", "None"}
    /\ sandbox \in ProjectSandbox
    /\ InitCall
    /\ project \in Projects
    /\ InitRest
    /\ peer = Absent

Edits == routesVersion + fileVersion["next.config.js"] + fileVersion["next.config.mjs"]

\* The content of a next.config file of the project changes.
EditNextConfig ==
    /\ Edits < MaxEdits
    /\ \E f \in DOMAIN fileVersion \cap project.files :
           fileVersion' = [fileVersion EXCEPT ![f] = @ + 1]
    /\ UNCHANGED <<sysPath, sandbox, callVars, project, routesVersion, configs,
                   evaluatedAt, atEval, runs, decoded, peer>>

\* The caller's routes_changed completion fires.
RoutesChange ==
    /\ Edits < MaxEdits
    /\ routesVersion' = routesVersion + 1
    /\ UNCHANGED <<sysPath, sandbox, callVars, project, fileVersion, configs,
                   evaluatedAt, atEval, runs, decoded, peer>>

\* The completion given to evaluate() has changed: the call is run again,
\* and the sandbox answers the new evaluation.
Reexecute ==
    /\ evaluatedAt # NotEvaluated
    /\ additional_invalidation # evaluatedAt
    /\ sandbox' \in ProjectSandbox
    /\ pc' = "start"
    /\ evalCount' = 0
    /\ evaluation' = [kind |-> "NotRun"]
    /\ result' = Pending
    /\ readIdx' = 0
    /\ body' = <<>>
    /\ bodyState' = "none"
    /\ pulls' = 0
    /\ evaluatedAt' = NotEvaluated
    /\ runs' = runs + 1
    /\ UNCHANGED <<sysPath, envVars, configs, atEval, decoded, peer>>

NextProject ==
    \/ Next
    \/ EditNextConfig
    \/ RoutesChange
    \/ Reexecute

SpecProject == InitProject /\ [][NextProject]_vars

(***************************************************************************)
(* Two requests evaluated concurrently against the same project.  Every    *)
(* call of route_internal has its own locals (its evaluation, its reader,  *)
(* its result); the peer's are the fields of the record peer.  The project *)
(* and the assets built from it are the only state the calls share.        *)
(***************************************************************************)
ConcSandbox ==
    { [kind |-> "Empty"],
      [kind |-> "Single", ok |-> TRUE, val |-> WireNone],
      [kind |-> "Single", ok |-> TRUE,
       val |-> JsonObj("rewrite", [url |-> "/y", headers |-> << <<"a", "b">> >>])],
      [kind |-> "Stream", closed |-> TRUE,
       elems |-> << Delivered(JsonObj("middleware-headers",
                                      [statusCode |-> 200, headers |-> <<>>])),
                    Delivered(JsonObj("middleware-body", [array |-> B1])),
                    Delivered(JsonObj("middleware-body", [array |-> B2])) >>],
      [kind |-> "Stream", closed |-> FALSE,
       elems |-> << Delivered(JsonObj("middleware-headers",
                                      [statusCode |-> 404,
                                       headers |-> << <<"a", "b">> >>])),
                    Delivered(JsonObj("middleware-body", [array |-> B2])),
                    Delivered(WireNone),
                    Delivered(JsonObj("middleware-body", [array |-> B1])) >>] }

PeerStart(sb) ==
    [pc |-> "start", sandbox |-> sb, evalCount |-> 0,
     evaluation |-> [kind |-> "NotRun"], result |-> Pending, readIdx |-> 0,
     body |-> <<>>, bodyState |-> "none", pulls |-> 0]

InitConc ==
    /\ sysPath \in {"Some", "None"}
    /\ sandbox \in ConcSandbox
    /\ InitCall
    /\ project \in Projects
    /\ InitRest
    /\ peer \in { PeerStart(sb) : sb \in ConcSandbox }

PeerOnly == UNCHANGED <<sysPath, sandbox, callVars, envVars, evaluatedAt, atEval, runs,
                        decoded>>

PeerCheckSysPath ==
    /\ peer.pc = "start"
    /\ peer' = IF sysPath = "None"
               THEN [peer EXCEPT
                       !.result = CallFailed("Next.js requires a disk path to check for valid routes"),
                       !.pc = "done"]
               ELSE [peer EXCEPT !.pc = "evaluate"]
    /\ configs' = config_assets(project)
    /\ PeerOnly

PeerEvaluate ==
    /\ peer.pc = "evaluate"
    /\ peer' = IF peer.sandbox.kind = "Failed"
               THEN [peer EXCEPT !.evalCount = @ + 1,
                                 !.result = CallFailed("evaluate failed"),
                                 !.pc = "done"]
               ELSE [peer EXCEPT !.evalCount = @ + 1,
                                 !.evaluation = peer.sandbox,
                                 !.pc = "match"]
    /\ UNCHANGED configs
    /\ PeerOnly

PeerMatchSingle ==
    /\ peer.pc = "match"
    /\ peer.evaluation.kind = "Single"
    /\ peer.evaluation.ok
    /\ peer' = [peer EXCEPT !.result = SingleResult(peer.evaluation.val), !.pc = "done"]
    /\ UNCHANGED configs
    /\ PeerOnly

PeerMatchOther ==
    /\ peer.pc = "match"
    /\ \/ peer.evaluation.kind = "Empty"
       \/ peer.evaluation.kind = "Single" /\ ~peer.evaluation.ok
    /\ peer' = [peer EXCEPT !.result = RouterError, !.pc = "done"]
    /\ UNCHANGED configs
    /\ PeerOnly

PeerCanRead == peer.readIdx < Len(peer.evaluation.elems) \/ peer.evaluation.closed

PeerReadFirst ==
    /\ peer.pc = "match"
    /\ peer.evaluation.kind = "Stream"
    /\ PeerCanRead
    /\ LET next == IF peer.readIdx < Len(peer.evaluation.elems)
                   THEN <<peer.evaluation.elems[peer.readIdx + 1]>>
                   ELSE <<>>
           res == FirstResult(next)
       IN  peer' = [peer EXCEPT
                      !.result = res,
                      !.readIdx = @ + Len(next),
                      !.bodyState = IF res.kind = "Middleware" THEN "open" ELSE "none",
                      !.pc = "done"]
    /\ UNCHANGED configs
    /\ PeerOnly

PeerBodyIsOpen ==
    /\ peer.pc = "done"
    /\ peer.result.kind = "Middleware"
    /\ peer.bodyState = "open"

PeerPulled ==
    IF peer.readIdx < Len(peer.evaluation.elems)
    THEN [peer EXCEPT
            !.pulls = @ + 1,
            !.body = Append(@, BodyMap(peer.evaluation.elems[peer.readIdx + 1])),
            !.readIdx = @ + 1]
    ELSE [peer EXCEPT !.pulls = @ + 1, !.bodyState = "ended"]

\* Calls that share one read position on "the" sandbox stream.
PeerPullBodySharedCursor ==
    /\ PeerBodyIsOpen
    /\ PeerCanRead
    /\ peer' = PeerPulled
    /\ readIdx' = IF pc = "done" /\ result.kind = "Middleware" THEN peer'.readIdx
                  ELSE readIdx
    /\ UNCHANGED <<sysPath, sandbox, pc, evalCount, evaluation, result, body, bodyState,
                   pulls, envVars, configs, evaluatedAt, atEval, runs, decoded>>

PeerPullBody ==
    /\ PeerBodyIsOpen
    /\ PeerCanRead
    /\ peer' = PeerPulled
    /\ UNCHANGED configs
    /\ PeerOnly

PeerAbandon ==
    /\ PeerBodyIsOpen
    /\ peer' = [peer EXCEPT !.bodyState = "dropped"]
    /\ UNCHANGED configs
    /\ PeerOnly

NextConc ==
    \/ Next
    \/ PeerCheckSysPath
    \/ PeerEvaluate
    \/ PeerMatchSingle
    \/ PeerMatchOther
    \/ PeerReadFirst
    \/ PeerPullBody
    \/ PeerAbandon

SpecConc == InitConc /\ [][NextConc]_vars

(***************************************************************************)
(* Properties.  The classes of sandbox output are named by the wire sets   *)
(* above, so that the decoder, not the property, decides each case.        *)
(***************************************************************************)
SingleShot == pc = "done" /\ evaluation.kind = "Single" /\ evaluation.ok
Streamed == pc = "done" /\ evaluation.kind = "Stream"

HeadersElems == { Delivered(p) : p \in WireHeadersMsgs }
BodyElems == { Delivered(p) : p \in WireBodyMsgs }
OtherTagMsgs == WireRewriteMsgs \cup WireBodyMsgs \cup {WireNone, WireError}

\* C1: on the single-shot path a well-formed `rewrite` message resolves to
\* RouterResult::Rewrite with exactly the message's url and header list
\* (order and duplicates kept), and a `none` message resolves to
\* RouterResult::None.
C1_SingleShotSuccess ==
    SingleShot =>
        /\ evaluation.val \in WireRewriteMsgs =>
               result = [kind |-> "Rewrite",
                         url |-> evaluation.val.data.url,
                         headers |-> evaluation.val.data.headers]
        /\ evaluation.val = WireNone => result = [kind |-> "None"]

C1_Witness ==
    /\ SingleShot
    /\ evaluation.val \in WireRewriteMsgs
    /\ result.kind = "Rewrite"
    /\ result.headers = << <<"a", "b">>, <<"c", "d">>, <<"a", "b">> >>

\* C2: when the stream starts with a `middleware-headers` message (S, H)
\* and every later element is a `middleware-body` message, the result is
\* Middleware with S and H, the body yields the chunks one per stream
\* element in the stream's order and then ends, and no body element exists
\* before the Middleware result does.
C2_StreamingSuccess ==
    /\ body # <<>> => result.kind = "Middleware"
    /\ ( /\ Streamed
         /\ evaluation.elems # <<>>
         /\ evaluation.elems[1] \in HeadersElems
         /\ \A i \in 2 .. Len(evaluation.elems) : evaluation.elems[i] \in BodyElems )
       => /\ result = [kind |-> "Middleware",
                       status_code |-> evaluation.elems[1].val.data.statusCode,
                       headers |-> evaluation.elems[1].val.data.headers]
          /\ Len(body) = readIdx - 1
          /\ pulls = Len(body) + (IF bodyState = "ended" THEN 1 ELSE 0)
          /\ \A i \in 1 .. Len(body) :
                 body[i] = [ok |-> TRUE, val |-> evaluation.elems[i + 1].val.data.array]
          /\ bodyState = "ended" =>
                 evaluation.closed /\ Len(body) = Len(evaluation.elems) - 1

C2_Witness ==
    /\ Streamed
    /\ result = [kind |-> "Middleware", status_code |-> 200,
                 headers |-> << <<"a", "b">> >>]
    /\ body = << [ok |-> TRUE, val |-> B1], [ok |-> TRUE, val |-> B2] >>
    /\ bodyState = "ended"

\* C3: when the first read of the stream yields end-of-stream, a transport
\* error, or a well-formed message of another tag than `middleware-headers`,
\* the result is RouterResult::Error, no body is exposed, and at most the
\* first element of the stream is ever read.
BadFirstRead ==
    \/ evaluation.elems = <<>>
    \/ evaluation.elems[1] = TransportError
    \/ evaluation.elems[1] \in { Delivered(p) : p \in OtherTagMsgs }

C3_BadFirstRead ==
    (Streamed /\ BadFirstRead) =>
        /\ result = [kind |-> "Error"]
        /\ bodyState = "none"
        /\ body = <<>>
        /\ pulls = 0
        /\ readIdx = (IF evaluation.elems = <<>> THEN 0 ELSE 1)

C3_Witness ==
    /\ Streamed
    /\ Len(evaluation.elems) = MaxStream
    /\ evaluation.elems[1] \in { Delivered(p) : p \in WireRewriteMsgs }
    /\ evaluation.elems[2] \in HeadersElems
    /\ result.kind = "Error"
    /\ readIdx = 1

\* C4: on the single-shot path a well-formed `middleware-headers`,
\* `middleware-body` or `error` message resolves to RouterResult::Error,
\* never to Middleware, Rewrite or None.
C4_SingleShotMiddlewareShaped ==
    (SingleShot /\ evaluation.val \in WireHeadersMsgs \cup WireBodyMsgs \cup {WireError})
        => result = [kind |-> "Error"] /\ bodyState = "none"

C4_Witness ==
    /\ SingleShot
    /\ evaluation.val \in WireHeadersMsgs
    /\ result.kind = "Error"

\* C5: on the single-shot path a payload that does not decode to a
\* RouterIncomingMessage resolves to the value RouterResult::Error, not to a
\* failed call.
C5_SingleShotMalformedIsError ==
    (SingleShot /\ evaluation.val \in WireMalformed) => result = [kind |-> "Error"]

\* C6: on the streaming path a first element that is delivered but does not
\* decode to a RouterIncomingMessage resolves to the value
\* RouterResult::Error, with no body exposed, not to a failed call.
C6_StreamUndecodableFirstIsError ==
    ( /\ Streamed
      /\ evaluation.elems # <<>>
      /\ evaluation.elems[1] \in { Delivered(p) : p \in WireMalformed } )
        => result = [kind |-> "Error"] /\ bodyState = "none"

\* C7: the body holds at most one error element and it is the last element
\* the body ever yields, whatever the sandbox stream holds after it.
C7_BodyErrorIsTerminal ==
    \A i \in 1 .. Len(body) : ~body[i].ok => i = Len(body)

\* C8: once the result is RouterResult::Middleware with status S and headers
\* H, it is that same value in every later state, whatever the body pulls
\* yield.
C8_HeadersFixed == [][result.kind = "Middleware" => result' = result]_vars

C8_Witness ==
    /\ result.kind = "Middleware"
    /\ bodyState = "ended"
    /\ \E i \in 1 .. Len(body) : ~body[i].ok

\* C9: when the project path has no system path, route_internal fails
\* without a RouterResult and evaluate() is never invoked.
C9_NoSysPathFailsBeforeEvaluate ==
    sysPath = "None" =>
        /\ evalCount = 0
        /\ evaluation = [kind |-> "NotRun"]
        /\ result.kind \in {"Pending", "Err"}
        /\ pc \in {"start", "done"}
        /\ pc = "done" => result.kind = "Err"

C9_Witness ==
    /\ sysPath = "None"
    /\ sandbox.kind = "Single"
    /\ pc = "done"
    /\ result.kind = "Err"

\* C13: after valid headers the i-th body element stems from the i-th
\* remaining stream element: it is Ok(bytes) exactly when that element was
\* delivered and is a `middleware-body` message (then with its bytes), and an
\* in-band Err(string) for a transport error, a decode failure or a message
\* of any other tag.
C13_BodyClassification ==
    (Streamed /\ result.kind = "Middleware") =>
        /\ Len(body) = readIdx - 1
        /\ \A i \in 1 .. Len(body) :
               LET e == evaluation.elems[i + 1]
               IN  IF e \in BodyElems
                   THEN body[i] = [ok |-> TRUE, val |-> e.val.data.array]
                   ELSE ~body[i].ok /\ DOMAIN body[i] = {"ok", "err"}

C13_Witness ==
    /\ Streamed
    /\ result.kind = "Middleware"
    /\ Len(body) = 2
    /\ evaluation.elems[2] = Delivered(WireError)
    /\ ~body[1].ok
    /\ body[2] = [ok |-> TRUE, val |-> B2]

\* C14: when route_internal returns RouterResult::Middleware exactly one
\* stream element has been read, and from then on the number of elements
\* read never exceeds one plus the number of body pulls.
C14_PullBasedLaziness ==
    /\ readIdx <= 1 + pulls
    /\ (pc = "done" /\ result.kind = "Middleware") =>
           /\ readIdx >= 1
           /\ pulls = 0 => readIdx = 1

C14_Witness ==
    /\ pc = "done"
    /\ result.kind = "Middleware"
    /\ Len(evaluation.elems) = MaxStream
    /\ pulls = 0
    /\ readIdx = 1

\* C15: within one call of route_internal evaluate() is invoked at most
\* once, whatever it resolves to.
C15_NoRetry == evalCount <= 1

C15_Witness ==
    /\ pc = "done"
    /\ evalCount = 1
    /\ sandbox.kind = "Single"
    /\ ~sandbox.ok
    /\ result.kind = "Error"

\* C16: an evaluation that resolved to Single(Err(..)) or to Empty makes
\* route_internal return the value RouterResult::Error, with nothing decoded
\* and nothing read.
C16_FailedOrEmptyEvaluation ==
    ( /\ pc = "done"
      /\ \/ evaluation.kind = "Empty"
         \/ evaluation.kind = "Single" /\ ~evaluation.ok )
        => /\ result = [kind |-> "Error"]
           /\ readIdx = 0
           /\ body = <<>>
           /\ bodyState = "none"

C16_Witness ==
    /\ pc = "done"
    /\ evaluation.kind = "Empty"
    /\ result.kind = "Error"

\* C11: whenever the project holds no middleware source for its page
\* extensions, config_assets supplies MIDDLEWARE_CHUNK_GROUP as a synthesized
\* module whose default export is the empty list and MIDDLEWARE_CONFIG as a
\* module exporting the empty matcher, whatever else the project holds; both
\* keys are present with or without middleware.
MiddlewareSources ==
    { pre \o project.page_extensions[i] :
        pre \in {"middleware.", "src/middleware."},
        i \in 1 .. Len(project.page_extensions) }

C11_NoMiddlewareFallback ==
    configs # NotBuilt =>
        /\ DOMAIN configs = {"MIDDLEWARE_CHUNK_GROUP", "MIDDLEWARE_CONFIG"}
        /\ project.files \cap MiddlewareSources = {} =>
               /\ configs.MIDDLEWARE_CHUNK_GROUP.source =
                      [asset |-> "virtual", path |-> "middleware.js",
                       content |-> [export_default |-> [array |-> <<>>]]]
               /\ configs.MIDDLEWARE_CONFIG.source =
                      [asset |-> "virtual", path |-> "middleware_config.js",
                       content |-> [export_default |-> [matcher |-> [array |-> <<>>]]]]

C11_Witness ==
    /\ configs # NotBuilt
    /\ project.files = {"src/middleware.mdx", "next.config.mjs"}
    /\ project.page_extensions = <<"tsx", "ts">>
    /\ project.declared_matcher = <<"/api/:path*">>
    /\ configs.MIDDLEWARE_CHUNK_GROUP.source.path = "middleware.js"

FoundNextConfig ==
    IF "next.config.mjs" \in project.files THEN "next.config.mjs"
    ELSE IF "next.config.js" \in project.files THEN "next.config.js"
    ELSE "none"

RoutesChangedSinceCall == routesVersion # atEval.routes

NextConfigChangedSinceCall ==
    /\ FoundNextConfig # "none"
    /\ fileVersion[FoundNextConfig] # atEval.files[FoundNextConfig]

C18_Invalidation ==
    evaluatedAt # NotEvaluated =>
        /\ Len(evaluatedAt.of) = 2
        /\ FoundNextConfig = "none" => evaluatedAt.of[1] = [completion |-> "immutable"]
        /\ RoutesChangedSinceCall => ENABLED Reexecute
        /\ NextConfigChangedSinceCall => ENABLED Reexecute
        /\ (FoundNextConfig = "none" /\ ~RoutesChangedSinceCall) => ~ENABLED Reexecute

C18_Witness ==
    /\ runs = 2
    /\ pc = "done"
    /\ evaluatedAt # NotEvaluated
    /\ FoundNextConfig = "next.config.js"
    /\ NextConfigChangedSinceCall
    /\ ~RoutesChangedSinceCall

(***************************************************************************)
(* What one request yields when it is evaluated alone: its outcome and the *)
(* body chunks behind the elements it has read, as functions of the disk   *)
(* path and of its own sandbox output only.                                *)
(***************************************************************************)
AloneResult(sys, sb) ==
    IF sys = "None"
    THEN CallFailed("Next.js requires a disk path to check for valid routes")
    ELSE CASE sb.kind = "Failed" -> CallFailed("evaluate failed")
           [] sb.kind = "Single" /\ sb.ok -> SingleResult(sb.val)
           [] sb.kind = "Stream" ->
                  FirstResult(IF Len(sb.elems) > 0 THEN <<sb.elems[1]>> ELSE <<>>)
           [] OTHER -> RouterError

AloneBody(sb, n) == [i \in 1..n |-> BodyMap(sb.elems[i + 1])]

AsAlone(r, sb) ==
    /\ r.pc = "done" => r.result = AloneResult(sysPath, sb)
    /\ r.pc # "done" => r.result = Pending
    /\ r.body = AloneBody(sb, Len(r.body))
    /\ r.bodyState # "none" => r.readIdx = Len(r.body) + 1
    /\ r.bodyState = "ended" => Len(r.body) = Len(sb.elems) - 1

Main ==
    [pc |-> pc, result |-> result, readIdx |-> readIdx, body |-> body,
     bodyState |-> bodyState]

SharedInputsReadOnly ==
    /\ project' = project
    /\ configs # NotBuilt => configs' = configs
    /\ configs' \in {NotBuilt, config_assets(project)}

\* C17: when two requests are evaluated concurrently against the same
\* project, with their sandbox reads and body pulls interleaved in any order,
\* each request's RouterResult and body sequence are those its own sandbox
\* output determines when it is evaluated alone, and no step of either request
\* changes the project or the manifest and matcher config built from it.
C17_RequestIndependence ==
    /\ [](AsAlone(Main, sandbox) /\ AsAlone(peer, peer.sandbox))
    /\ [][SharedInputsReadOnly]_vars

C17_Witness ==
    /\ configs = config_assets(project)
    /\ result.kind = "Middleware"
    /\ peer.result.kind = "Middleware"
    /\ result # peer.result
    /\ Len(body) = 2
    /\ Len(peer.body) = 3
    /\ body[2] # peer.body[2]
    /\ bodyState = "ended"
    /\ peer.bodyState = "open"

====
